---- MODULE Spec2Model ----
(***************************************************************************)
(* wordef: a word is resolved to its definitions from a cache directory    *)
(* (one <word>.json file per word) or, failing that, from a remote         *)
(* dictionary endpoint; the fetched bytes are then saved in the cache.     *)
(*                                                                         *)
(* Two builds of the program are modelled:                                 *)
(*   src/wordef.go          main, handleSearchCommand, searchWord, ...     *)
(*   src/unnamed/part_000   main, searchWord, searchWordLocal, ...         *)
(* Definitions of the second build whose name clashes with the first carry *)
(* the suffix 0 (searchWord0, main0).                                      *)
(*                                                                         *)
(* Strings that the code takes apart (words, file names) are sequences of  *)
(* one-character strings.  Byte payloads are TLA+ strings holding the      *)
(* text; the JSON scanner is a table from the modelled texts to their      *)
(* syntax trees, and the decoding of a tree into []WordInfo follows        *)
(* encoding/json.                                                          *)
(*                                                                         *)
(* Spec, Spec0 and SpecBoth run the programs one after another, one step   *)
(* per run.  SpecRace runs two invocations of wordef.go at the same time,  *)
(* one step per file system or network call (inst holds where each is).    *)
(***************************************************************************)
EXTENDS Integers, Sequences, FiniteSets, TLC

VARIABLES cacheDir, last, prev, resolved, firstOk, initDir, ncalls, inst

vars == <<cacheDir, last, prev, resolved, firstOk, initDir, ncalls, inst>>

\* Number of program runs (or direct store calls) in one behaviour.
MaxCalls == 2

-----------------------------------------------------------------------------
(* Words, file names *)

Str_cat      == <<"c", "a", "t">>
Str_Cat      == <<"C", "a", "t">>
Str_a_jsonb  == <<"a", ".", "j", "s", "o", "n", "b">>
Str_dot_json == <<".", "j", "s", "o", "n">>

\* Command-line arguments (os.Args[1]).
Args == {Str_cat, Str_Cat, Str_a_jsonb}

\* unicode.ToUpper on the runes that occur.
ToUpper(c) ==
  CASE c = "a" -> "A"
    [] c = "b" -> "B"
    [] c = "c" -> "C"
    [] c = "j" -> "J"
    [] c = "n" -> "N"
    [] c = "o" -> "O"
    [] c = "s" -> "S"
    [] c = "t" -> "T"
    [] OTHER   -> c

\* Variant: the word is passed on as it was typed.
capitalizeString_None(s) == s

capitalizeString(s) ==
  IF Len(s) = 0 THEN <<>>
  ELSE [i \in 1..Len(s) |-> IF i = 1 THEN ToUpper(s[1]) ELSE s[i]]

\* The words the resolvers are called with: wordef.go capitalizes the
\* argument, part_000 passes it on unchanged.
Keys == Args \cup {capitalizeString(a) : a \in Args}

\* word + ".json" (path.Join with the directory leaves the name as it is
\* for the words modelled: none holds a path separator).
FileName(word) == word \o Str_dot_json

FileNames == {FileName(w) : w \in Keys}

\* A file in a subdirectory of the cache directory: bad/Bat.json.
SubDirName == <<"b", "a", "d">>

SubFileName == <<"B", "a", "t">> \o Str_dot_json

SubPath == SubDirName \o <<"/">> \o SubFileName

\* The paths below the cache directory.
Paths == FileNames \cup {SubPath}

\* The text before the first separator (the whole path without one), and the
\* text after the last one (d.Name() of the entry).
InSubDir(path) == \E i \in 1..Len(path) : path[i] = "/"

TopName(path) ==
  IF ~InSubDir(path) THEN path
  ELSE SubSeq(path, 1, (CHOOSE i \in 1..Len(path) :
                          path[i] = "/" /\ \A j \in 1..(i - 1) : path[j] # "/") - 1)

BaseName(path) ==
  IF ~InSubDir(path) THEN path
  ELSE SubSeq(path, (CHOOSE i \in 1..Len(path) :
                       path[i] = "/" /\ \A j \in (i + 1)..Len(path) : path[j] # "/") + 1,
              Len(path))

-----------------------------------------------------------------------------
(* Byte payloads and JSON *)

JNull     == [t |-> "null"]
JStr(s)   == [t |-> "string", v |-> s]
JNum(n)   == [t |-> "number", v |-> n]
JArr(a)   == [t |-> "array",  v |-> a]
JObj(o)   == [t |-> "object", v |-> o]

Txt_html   == "<html>502</html>"
Txt_object == "{\"title\":\"No Definitions Found\"}"
Txt_null   == "null"
Txt_empty  == "[]"
Txt_nomean == "[{\"word\":\"cat\",\"meanings\":[]}]"
Txt_noun   == "[{\"word\":\"cat\",\"phonetic\":\"kat\",\"meanings\":[{\"partOfSpeech\":\"noun\",\"definitions\":[{\"definition\":\"an animal\"}]}]}]"
Txt_verb   == "[{\"word\":\"cat\",\"meanings\":[{\"partOfSpeech\":\"verb\",\"definitions\":[{\"definition\":\"to hoist\"}]}]}]"

\* A byte slice of length 0 (nil).
NilBytes == ""

\* Bodies the remote endpoint may deliver.
Bodies == {Txt_html, Txt_object, Txt_null, Txt_empty, Txt_nomean, Txt_noun, Txt_verb}

\* The JSON scanner on the modelled texts: the syntax tree of a text that is
\* valid JSON.  Every other text (the empty one included) is a syntax error.
ValidJson == {Txt_object, Txt_null, Txt_empty, Txt_nomean, Txt_noun, Txt_verb}

SyntaxTree(txt) ==
  CASE txt = Txt_object -> JObj([title |-> JStr("No Definitions Found")])
    [] txt = Txt_null   -> JNull
    [] txt = Txt_empty  -> JArr(<<>>)
    [] txt = Txt_nomean -> JArr(<<JObj([word |-> JStr("cat"), meanings |-> JArr(<<>>)])>>)
    [] txt = Txt_noun   ->
         JArr(<<JObj([word |-> JStr("cat"), phonetic |-> JStr("kat"),
                      meanings |-> JArr(<<JObj([partOfSpeech |-> JStr("noun"),
                          definitions |-> JArr(<<JObj([definition |-> JStr("an animal")])>>)])>>)])>>)
    [] txt = Txt_verb   ->
         JArr(<<JObj([word |-> JStr("cat"),
                      meanings |-> JArr(<<JObj([partOfSpeech |-> JStr("verb"),
                          definitions |-> JArr(<<JObj([definition |-> JStr("to hoist")])>>)])>>)])>>)

\* encoding/json into a Go value: a field that is absent or null leaves the
\* zero value; a JSON value of another type than the Go type is an
\* UnmarshalTypeError.
Field(o, name) == IF name \in DOMAIN o THEN o[name] ELSE JNull

\* ok: the JSON value decodes into the Go type without a type error.
OkString(j) == j.t \in {"string", "null"}
ValString(j) == IF j.t = "string" THEN j.v ELSE ""

OkDefinition(j) ==
  \/ j.t = "null"
  \/ /\ j.t = "object"
     /\ OkString(Field(j.v, "definition"))
     /\ OkString(Field(j.v, "example"))
ValDefinition(j) ==
  IF j.t = "object"
  THEN [Definition |-> ValString(Field(j.v, "definition")),
        Example |-> ValString(Field(j.v, "example"))]
  ELSE [Definition |-> "", Example |-> ""]

OkDefinitions(j) ==
  \/ j.t = "null"
  \/ /\ j.t = "array"
     /\ \A i \in 1..Len(j.v) : OkDefinition(j.v[i])
ValDefinitions(j) ==
  IF j.t = "array" THEN [i \in 1..Len(j.v) |-> ValDefinition(j.v[i])] ELSE <<>>

OkMeaning(j) ==
  \/ j.t = "null"
  \/ /\ j.t = "object"
     /\ OkString(Field(j.v, "partOfSpeech"))
     /\ OkDefinitions(Field(j.v, "definitions"))
ValMeaning(j) ==
  IF j.t = "object"
  THEN [PartOfSpeech |-> ValString(Field(j.v, "partOfSpeech")),
        Definitions |-> ValDefinitions(Field(j.v, "definitions"))]
  ELSE [PartOfSpeech |-> "", Definitions |-> <<>>]

OkMeanings(j) ==
  \/ j.t = "null"
  \/ /\ j.t = "array"
     /\ \A i \in 1..Len(j.v) : OkMeaning(j.v[i])
ValMeanings(j) ==
  IF j.t = "array" THEN [i \in 1..Len(j.v) |-> ValMeaning(j.v[i])] ELSE <<>>

ZeroWordInfo == [Word |-> "", Phonetic |-> "", Origin |-> "", Meanings |-> <<>>]

OkWordInfo(j) ==
  \/ j.t = "null"
  \/ /\ j.t = "object"
     /\ OkString(Field(j.v, "word"))
     /\ OkString(Field(j.v, "phonetic"))
     /\ OkString(Field(j.v, "origin"))
     /\ OkMeanings(Field(j.v, "meanings"))
ValWordInfo(j) ==
  IF j.t = "object"
  THEN [Word |-> ValString(Field(j.v, "word")),
        Phonetic |-> ValString(Field(j.v, "phonetic")),
        Origin |-> ValString(Field(j.v, "origin")),
        Meanings |-> ValMeanings(Field(j.v, "meanings"))]
  ELSE ZeroWordInfo

\* json.Unmarshal(rawJson, &parsed) with parsed []WordInfo.
Unmarshal(rawJson) ==
  IF rawJson \notin ValidJson
  THEN [parsed |-> <<>>, err |-> "ParseFailure"]
  ELSE IF SyntaxTree(rawJson).t = "null"
  THEN [parsed |-> <<>>, err |-> "nil"]
  ELSE IF /\ SyntaxTree(rawJson).t = "array"
          /\ \A i \in 1..Len(SyntaxTree(rawJson).v) : OkWordInfo(SyntaxTree(rawJson).v[i])
  THEN [parsed |-> [i \in 1..Len(SyntaxTree(rawJson).v) |->
                      ValWordInfo(SyntaxTree(rawJson).v[i])],
        err |-> "nil"]
  ELSE [parsed |-> <<>>, err |-> "ParseFailure"]

-----------------------------------------------------------------------------
(* The cache directory: for every file name, whether an entry of that name
   exists, its bytes, and whether os.ReadFile can read it (an entry the
   program did not write may be unreadable: no read permission, or a
   directory of that name). *)

NoFile == [exists |-> FALSE, data |-> NilBytes, readable |-> FALSE]

File(data, readable) == [exists |-> TRUE, data |-> data, readable |-> readable]

EmptyDir == [f \in Paths |-> NoFile]

\* The directories the program may find when it starts: empty, or with one
\* entry that something else put there.
InitDirs ==
  {EmptyDir}
  \cup {[EmptyDir EXCEPT ![FileName(Str_Cat)] = e] :
          e \in {File(Txt_html, TRUE), File(Txt_noun, FALSE)}}
  \cup {[EmptyDir EXCEPT ![SubPath] = File(Txt_noun, TRUE)]}

\* What the remote endpoint does on one request: http.Get fails, or the body
\* cannot be read to its end, or a body is delivered.
Nets ==
  {[get |-> "err", read |-> "ok",  body |-> NilBytes],
   [get |-> "ok",  read |-> "err", body |-> NilBytes]}
  \cup {[get |-> "ok", read |-> "ok", body |-> b] : b \in Bodies}

-----------------------------------------------------------------------------
(* src/wordef.go *)

\* Variant: success is reported but nothing is stored.
saveToCache_Lost(word, rawJson, dir, writeOk) ==
  LET wordPath == FileName(word) IN
  IF dir[wordPath].exists
  THEN [dir |-> dir, err |-> "AlreadyExists", events |-> <<"save.stat:exists">>]
  ELSE IF writeOk
       THEN [dir |-> dir, err |-> "nil", events |-> <<"save.stat:absent", "write:ok">>]
       ELSE [dir |-> dir, err |-> "IOFailure",
             events |-> <<"save.stat:absent", "write:err">>]

\* Variant: the file is created with other bytes than the ones passed.
saveToCache_OtherBytes(word, rawJson, dir, writeOk) ==
  LET wordPath == FileName(word) IN
  IF dir[wordPath].exists
  THEN [dir |-> dir, err |-> "AlreadyExists", events |-> <<"save.stat:exists">>]
  ELSE IF writeOk
       THEN [dir |-> [dir EXCEPT ![wordPath] = File(Txt_empty, TRUE)],
             err |-> "nil", events |-> <<"save.stat:absent", "write:ok">>]
       ELSE [dir |-> dir, err |-> "IOFailure",
             events |-> <<"save.stat:absent", "write:err">>]

\* Variant: the os.Stat check is left out, an existing file is overwritten.
saveToCache_Overwrite(word, rawJson, dir, writeOk) ==
  LET wordPath == FileName(word) IN
  IF writeOk
  THEN [dir |-> [dir EXCEPT ![wordPath] = File(rawJson, TRUE)],
        err |-> "nil", events |-> <<"save.stat:absent", "write:ok">>]
  ELSE [dir |-> dir, err |-> "IOFailure",
        events |-> <<"save.stat:absent", "write:err">>]

saveToCache(word, rawJson, dir, writeOk) ==
  LET wordPath == FileName(word) IN
  IF dir[wordPath].exists
  THEN [dir |-> dir, err |-> "AlreadyExists", events |-> <<"save.stat:exists">>]
  ELSE IF writeOk
       THEN [dir |-> [dir EXCEPT ![wordPath] = File(rawJson, TRUE)],
             err |-> "nil", events |-> <<"save.stat:absent", "write:ok">>]
       ELSE [dir |-> dir, err |-> "IOFailure",
             events |-> <<"save.stat:absent", "write:err">>]

fetchFromCache(word, dir) ==
  LET wordPath == FileName(word) IN
  IF ~dir[wordPath].exists
  THEN [rawJson |-> NilBytes, err |-> "NotFound", events |-> <<"stat:err">>]
  ELSE IF ~dir[wordPath].readable
       THEN [rawJson |-> NilBytes, err |-> "IOFailure",
             events |-> <<"stat:ok", "read:err">>]
       ELSE [rawJson |-> dir[wordPath].data, err |-> "nil",
             events |-> <<"stat:ok", "read:ok">>]

fetchFromApi(word, net) ==
  IF net.get = "err"
  THEN [rawJson |-> NilBytes, err |-> "NetworkFailure", events |-> <<"get:err">>]
  ELSE IF net.read = "err"
       THEN [rawJson |-> NilBytes, err |-> "ReadFailure",
             events |-> <<"get:ok", "readall:err">>]
       ELSE [rawJson |-> net.body, err |-> "nil",
             events |-> <<"get:ok", "readall:ok">>]

\* Variant: the request is sent whether or not the cache delivered.
searchWord_FetchAlways(word, dir, net, writeOk) ==
  LET c == fetchFromCache(word, dir)
      a == fetchFromApi(word, net)
      u == Unmarshal(a.rawJson)
      s == saveToCache(word, a.rawJson, dir, writeOk)
  IN IF u.err # "nil"
     THEN [parsed |-> <<>>, err |-> u.err, dir |-> dir, rawJson |-> a.rawJson,
           events |-> c.events \o a.events \o <<"unmarshal:err">>]
     ELSE [parsed |-> u.parsed, err |-> "nil", dir |-> s.dir, rawJson |-> a.rawJson,
           events |-> c.events \o a.events \o <<"unmarshal:ok">> \o s.events]

\* Variant: the bytes are stored before json.Unmarshal has accepted them.
searchWord_SaveUnparsed(word, dir, net, writeOk) ==
  LET c == fetchFromCache(word, dir)
      a == IF c.err # "nil" THEN fetchFromApi(word, net) ELSE c
      ev1 == IF c.err # "nil" THEN c.events \o a.events ELSE c.events
      u == Unmarshal(a.rawJson)
      s == saveToCache(word, a.rawJson, dir, writeOk)
  IN IF u.err # "nil"
     THEN [parsed |-> <<>>, err |-> u.err, dir |-> s.dir, rawJson |-> a.rawJson,
           events |-> ev1 \o s.events \o <<"unmarshal:err">>]
     ELSE [parsed |-> u.parsed, err |-> "nil", dir |-> s.dir, rawJson |-> a.rawJson,
           events |-> ev1 \o s.events \o <<"unmarshal:ok">>]

\* Variant: the error of saveToCache is returned to the caller.
searchWord_SaveError(word, dir, net, writeOk) ==
  LET c == fetchFromCache(word, dir)
      a == IF c.err # "nil" THEN fetchFromApi(word, net) ELSE c
      ev1 == IF c.err # "nil" THEN c.events \o a.events ELSE c.events
      u == Unmarshal(a.rawJson)
      s == saveToCache(word, a.rawJson, dir, writeOk)
  IN IF u.err # "nil"
     THEN [parsed |-> <<>>, err |-> u.err, dir |-> dir, rawJson |-> a.rawJson,
           events |-> ev1 \o <<"unmarshal:err">>]
     ELSE IF s.err # "nil"
     THEN [parsed |-> <<>>, err |-> s.err, dir |-> s.dir, rawJson |-> a.rawJson,
           events |-> ev1 \o <<"unmarshal:ok">> \o s.events]
     ELSE [parsed |-> u.parsed, err |-> "nil", dir |-> s.dir, rawJson |-> a.rawJson,
           events |-> ev1 \o <<"unmarshal:ok">> \o s.events]

\* The error of the fetch is overwritten by the one of json.Unmarshal
\* (line 121), and saveToCache is called on the cache path too (line 127).
searchWord(word, dir, net, writeOk) ==
  LET c == fetchFromCache(word, dir)
      a == IF c.err # "nil" THEN fetchFromApi(word, net) ELSE c
      ev1 == IF c.err # "nil" THEN c.events \o a.events ELSE c.events
      u == Unmarshal(a.rawJson)
      s == saveToCache(word, a.rawJson, dir, writeOk)
  IN IF u.err # "nil"
     THEN [parsed |-> <<>>, err |-> u.err, dir |-> dir, rawJson |-> a.rawJson,
           events |-> ev1 \o <<"unmarshal:err">>]
     ELSE [parsed |-> u.parsed, err |-> "nil", dir |-> s.dir, rawJson |-> a.rawJson,
           events |-> ev1 \o <<"unmarshal:ok">> \o s.events]

\* Go's ordering of strings, on the characters that occur in file names.
CharOrder == <<".", "A", "B", "C", "a", "b", "c", "d", "e", "f", "j", "n", "o", "r", "s", "t", "w">>

CharRank(c) == CHOOSE i \in 1..Len(CharOrder) : CharOrder[i] = c

RECURSIVE LexLess(_, _)
LexLess(s, t) ==
  IF Len(t) = 0 THEN FALSE
  ELSE IF Len(s) = 0 THEN TRUE
  ELSE IF s[1] # t[1] THEN CharRank(s[1]) < CharRank(t[1])
  ELSE LexLess(Tail(s), Tail(t))

RECURSIVE SortNames(_)
SortNames(S) ==
  IF S = {} THEN <<>>
  ELSE LET m == CHOOSE x \in S : \A y \in S \ {x} : LexLess(x, y)
       IN <<m>> \o SortNames(S \ {m})

\* filepath.Ext: the suffix from the last dot on, empty without a dot.
Ext(name) ==
  LET dots == {i \in 1..Len(name) : name[i] = "."} IN
  IF dots = {} THEN <<>>
  ELSE LET i == CHOOSE k \in dots : \A l \in dots : l <= k
       IN SubSeq(name, i, Len(name))

\* strings.Replace(s, old, "", 1): the first occurrence of old is removed.
RemoveFirst(s, old) ==
  LET occ == {i \in 1..(Len(s) - Len(old) + 1) : SubSeq(s, i, i + Len(old) - 1) = old} IN
  IF occ = {} THEN s
  ELSE LET i == CHOOSE k \in occ : \A l \in occ : k <= l
       IN SubSeq(s, 1, i - 1) \o SubSeq(s, i + Len(old), Len(s))

RootName == <<"w", "o", "r", "d", "e", "f">>

RECURSIVE WalkWords(_)
WalkWords(names) ==
  IF Len(names) = 0 THEN <<>>
  ELSE LET filePath == Head(names) IN
       (IF Ext(filePath) = Str_dot_json
        THEN <<RemoveFirst(filePath, Str_dot_json)>>
        ELSE <<>>) \o WalkWords(Tail(names))

\* The names filepath.WalkDir hands to the callback below the entries of
\* one directory: each entry, and after a subdirectory the entries inside it.
RECURSIVE WalkEntries(_, _)
WalkEntries(entries, files) ==
  IF Len(entries) = 0 THEN <<>>
  ELSE LET e == Head(entries)
           inside == {BaseName(f) : f \in {g \in files : InSubDir(g) /\ TopName(g) = e}}
       IN <<e>> \o SortNames(inside) \o WalkEntries(Tail(entries), files)

\* filepath.WalkDir visits the root, then its entries in lexical order,
\* descending into every subdirectory.
WalkNames(dir) ==
  LET files == {f \in DOMAIN dir : dir[f].exists} IN
  <<RootName>> \o WalkEntries(SortNames({TopName(f) : f \in files}), files)

getCachedWords(dir, walkOk) ==
  IF ~walkOk
  THEN [words |-> <<>>, err |-> "IOFailure"]
  ELSE [words |-> WalkWords(WalkNames(dir)), err |-> "nil"]

\* A meaning without a definition makes v.Definitions[0] (line 171) panic.
renderDefinitionsTable(wordInfo) ==
  IF \E i \in 1..Len(wordInfo.Meanings) : Len(wordInfo.Meanings[i].Definitions) = 0
  THEN "panic"
  ELSE "ok"

\* outcome: "ok" (the table is printed), "error" (an error is returned; herr
\* is the error it wraps, "nil" for the one of line 201), "panic" (resp[0] or
\* Definitions[0] out of range).
\* Variant: the test of len(wordInfo.Meanings) is left out.
handleSearchCommand_NoMeaningsTest(word, dir, net, writeOk) ==
  LET r == searchWord(word, dir, net, writeOk) IN
  IF r.err # "nil"
  THEN [outcome |-> "error", herr |-> r.err, search |-> r]
  ELSE IF Len(r.parsed) = 0
       THEN [outcome |-> "panic", herr |-> "nil", search |-> r]
       ELSE [outcome |-> renderDefinitionsTable(r.parsed[1]), herr |-> "nil",
             search |-> r]

handleSearchCommand(word, dir, net, writeOk) ==
  LET r == searchWord(word, dir, net, writeOk) IN
  IF r.err # "nil"
  THEN [outcome |-> "error", herr |-> r.err, search |-> r]
  ELSE IF Len(r.parsed) = 0
       THEN [outcome |-> "panic", herr |-> "nil", search |-> r]
       ELSE IF Len(r.parsed[1].Meanings) = 0
            THEN [outcome |-> "error", herr |-> "nil", search |-> r]
            ELSE [outcome |-> renderDefinitionsTable(r.parsed[1]), herr |-> "nil",
                  search |-> r]

-----------------------------------------------------------------------------
(* src/unnamed/part_000 *)

saveToAppDir(word, rawJson, dir, writeOk) ==
  LET wordPath == FileName(word) IN
  IF dir[wordPath].exists
  THEN [dir |-> dir, err |-> "AlreadyExists", events |-> <<"save.stat:exists">>]
  ELSE IF writeOk
       THEN [dir |-> [dir EXCEPT ![wordPath] = File(rawJson, TRUE)],
             err |-> "nil", events |-> <<"save.stat:absent", "write:ok">>]
       ELSE [dir |-> dir, err |-> "IOFailure",
             events |-> <<"save.stat:absent", "write:err">>]

searchWordLocal(word, dir) ==
  LET wordPath == FileName(word) IN
  IF ~dir[wordPath].exists
  THEN [parsed |-> <<>>, rawJson |-> NilBytes, err |-> "NotFound",
        events |-> <<"stat:err">>]
  ELSE IF ~dir[wordPath].readable
       THEN [parsed |-> <<>>, rawJson |-> NilBytes, err |-> "IOFailure",
             events |-> <<"stat:ok", "read:err">>]
       ELSE LET u == Unmarshal(dir[wordPath].data) IN
            IF u.err # "nil"
            THEN [parsed |-> <<>>, rawJson |-> NilBytes, err |-> u.err,
                  events |-> <<"stat:ok", "read:ok", "unmarshal:err">>]
            ELSE [parsed |-> u.parsed, rawJson |-> dir[wordPath].data, err |-> "nil",
                  events |-> <<"stat:ok", "read:ok", "unmarshal:ok">>]

searchWord0(word, dir, net, writeOk) ==
  LET l == searchWordLocal(word, dir) IN
  IF l.err = "nil"
  THEN [parsed |-> l.parsed, err |-> "nil", dir |-> dir, rawJson |-> l.rawJson,
        events |-> l.events]
  ELSE IF net.get = "err"
  THEN [parsed |-> <<>>, err |-> "NetworkFailure", dir |-> dir, rawJson |-> NilBytes,
        events |-> l.events \o <<"get:err">>]
  ELSE IF net.read = "err"
  THEN [parsed |-> <<>>, err |-> "ReadFailure", dir |-> dir, rawJson |-> NilBytes,
        events |-> l.events \o <<"get:ok", "readall:err">>]
  ELSE LET u == Unmarshal(net.body)
           s == saveToAppDir(word, net.body, dir, writeOk)
       IN IF u.err # "nil"
          THEN [parsed |-> <<>>, err |-> u.err, dir |-> dir, rawJson |-> net.body,
                events |-> l.events \o <<"get:ok", "readall:ok", "unmarshal:err">>]
          ELSE [parsed |-> u.parsed, err |-> "nil", dir |-> s.dir, rawJson |-> net.body,
                events |-> l.events \o <<"get:ok", "readall:ok", "unmarshal:ok">> \o s.events]

\* Lines 157-168 of main: err is not looked at before resp[0].
handleSearch0(word, dir, net, writeOk) ==
  LET r == searchWord0(word, dir, net, writeOk) IN
  IF Len(r.parsed) = 0
  THEN [outcome |-> "panic", herr |-> r.err, search |-> r]
  ELSE IF Len(r.parsed[1].Meanings) = 0
       THEN [outcome |-> "nodefs", herr |-> "nil", search |-> r]
       ELSE [outcome |-> renderDefinitionsTable(r.parsed[1]), herr |-> "nil",
             search |-> r]

-----------------------------------------------------------------------------
(* State.
   cacheDir   the cache directory
   last       what the most recent run (or store call) did and returned
   prev       the same for the run before it
   resolved   the words for which a resolver call has returned without error
   firstOk    per word, the bytes of the first fetch for it that parsed
   initDir    the cache directory at the start
   ncalls     the number of runs so far *)

NoCall ==
  [op |-> "none", prog |-> "none", arg |-> <<>>, word |-> <<>>, events |-> <<>>,
   parsed |-> <<>>, err |-> "nil", outcome |-> "none", herr |-> "nil",
   rawJson |-> NilBytes, body |-> NilBytes, words |-> <<>>]

\* Two invocations of the program running at the same time.
Instances == {"p", "q"}

\* An invocation that has not started: pc is the next statement of searchWord
\* and saveToCache it executes, saved the return value of saveToCache.
Idle == [pc |-> "idle", word |-> <<>>, rawJson |-> NilBytes, err |-> "nil",
         saved |-> "none"]

Init ==
  /\ cacheDir \in InitDirs
  /\ initDir = cacheDir
  /\ last = NoCall
  /\ prev = NoCall
  /\ resolved = {}
  /\ firstOk = [w \in Keys |-> <<>>]
  /\ ncalls = 0
  /\ inst = [p \in Instances |-> Idle]

\* The events of a call that are an element of S.
Count(events, S) == Cardinality({i \in 1..Len(events) : events[i] \in S})

Has(events, e) == \E i \in 1..Len(events) : events[i] = e

\* The number of requests sent to the remote endpoint.
NFetch(call) == Count(call.events, {"get:ok", "get:err"})

\* The number of os.ReadFile calls on the cache.
NRead(call) == Count(call.events, {"read:ok", "read:err"})

\* The bytes the remote endpoint delivered in a call (none when the call sent
\* no request or the request failed).
Delivered(events, net) == IF Has(events, "readall:ok") THEN net.body ELSE NilBytes

\* The record of a resolver call: rawJson and parsed are the resolver's own
\* values, body is what the endpoint delivered.
SearchCall(prog, arg, word, net, h) ==
  [NoCall EXCEPT !.op = "search", !.prog = prog, !.arg = arg, !.word = word,
                 !.events = h.search.events, !.parsed = h.search.parsed,
                 !.err = h.search.err, !.outcome = h.outcome, !.herr = h.herr,
                 !.rawJson = h.search.rawJson,
                 !.body = Delivered(h.search.events, net)]

AfterSearch(prog, arg, word, net, h) ==
  /\ cacheDir' = h.search.dir
  /\ last' = SearchCall(prog, arg, word, net, h)
  /\ prev' = last
  /\ resolved' = IF h.search.err = "nil" THEN resolved \cup {word} ELSE resolved
  /\ firstOk' = IF /\ Has(h.search.events, "readall:ok")
                   /\ h.search.err = "nil"
                   /\ firstOk[word] = <<>>
                THEN [firstOk EXCEPT ![word] = <<net.body>>]
                ELSE firstOk
  /\ ncalls' = ncalls + 1
  /\ UNCHANGED <<initDir, inst>>

\* wordef.go, main with one argument (lines 244-246).
Main(arg, net, writeOk) ==
  /\ ncalls < MaxCalls
  /\ LET word == capitalizeString(arg)
         h == handleSearchCommand(word, cacheDir, net, writeOk)
     IN AfterSearch("wordef", arg, word, net, h)

\* wordef.go, main without a word (line 248): handleWelcomeCommand.
MainList(walkOk) ==
  /\ ncalls < MaxCalls
  /\ LET g == getCachedWords(cacheDir, walkOk) IN
     last' = [NoCall EXCEPT !.op = "list", !.prog = "wordef", !.words = g.words,
                            !.err = g.err,
                            !.outcome = IF g.err = "nil" THEN "ok" ELSE "error",
                            !.herr = g.err]
  /\ prev' = last
  /\ ncalls' = ncalls + 1
  /\ UNCHANGED <<cacheDir, resolved, firstOk, initDir, inst>>

\* wordef.go, main when getCacheDir fails (lines 234-238): log.Fatalln.
MainFatal ==
  /\ ncalls < MaxCalls
  /\ last' = [NoCall EXCEPT !.op = "fatal", !.prog = "wordef", !.outcome = "fatal"]
  /\ prev' = last
  /\ ncalls' = ncalls + 1
  /\ UNCHANGED <<cacheDir, resolved, firstOk, initDir, inst>>

\* part_000, main when getAppDir fails (lines 143-147): log.Fatalln.
Main0Fatal ==
  /\ ncalls < MaxCalls
  /\ last' = [NoCall EXCEPT !.op = "fatal", !.prog = "part_000", !.outcome = "fatal"]
  /\ prev' = last
  /\ ncalls' = ncalls + 1
  /\ UNCHANGED <<cacheDir, resolved, firstOk, initDir, inst>>

\* part_000, main with a word (lines 155-168).
Main0(arg, net, writeOk) ==
  /\ ncalls < MaxCalls
  /\ LET h == handleSearch0(arg, cacheDir, net, writeOk)
     IN AfterSearch("part_000", arg, arg, net, h)

\* part_000, main without a word (lines 151-153): log.Fatalln.
Main0NoArg ==
  /\ ncalls < MaxCalls
  /\ last' = [NoCall EXCEPT !.op = "usage", !.prog = "part_000", !.outcome = "fatal"]
  /\ prev' = last
  /\ ncalls' = ncalls + 1
  /\ UNCHANGED <<cacheDir, resolved, firstOk, initDir, inst>>

\* The cache store called on its own: one write, one read.
StoreWords == {Str_Cat, Str_a_jsonb}

StoreBytes == {Txt_noun, Txt_verb, Txt_html}

StoreCall(op, prog, word, rawJson, r) ==
  [NoCall EXCEPT !.op = op, !.prog = prog, !.word = word, !.rawJson = rawJson,
                 !.err = r.err, !.events = r.events]

StoreWrite(word, rawJson, writeOk) ==
  /\ ncalls < MaxCalls
  /\ LET r == saveToCache(word, rawJson, cacheDir, writeOk) IN
     /\ cacheDir' = r.dir
     /\ last' = StoreCall("write", "wordef", word, rawJson, r)
  /\ prev' = last
  /\ ncalls' = ncalls + 1
  /\ UNCHANGED <<resolved, firstOk, initDir, inst>>

StoreWrite0(word, rawJson, writeOk) ==
  /\ ncalls < MaxCalls
  /\ LET r == saveToAppDir(word, rawJson, cacheDir, writeOk) IN
     /\ cacheDir' = r.dir
     /\ last' = StoreCall("write", "part_000", word, rawJson, r)
  /\ prev' = last
  /\ ncalls' = ncalls + 1
  /\ UNCHANGED <<resolved, firstOk, initDir, inst>>

StoreRead(word) ==
  /\ ncalls < MaxCalls
  /\ LET r == fetchFromCache(word, cacheDir) IN
     last' = StoreCall("read", "wordef", word, r.rawJson, r)
  /\ prev' = last
  /\ ncalls' = ncalls + 1
  /\ UNCHANGED <<cacheDir, resolved, firstOk, initDir, inst>>

Next ==
  \/ \E arg \in Args, net \in Nets, writeOk \in BOOLEAN : Main(arg, net, writeOk)
  \/ \E walkOk \in BOOLEAN : MainList(walkOk)
  \/ MainFatal

Next0 ==
  \/ \E arg \in Args, net \in Nets, writeOk \in BOOLEAN : Main0(arg, net, writeOk)
  \/ Main0NoArg
  \/ Main0Fatal

NextStore ==
  \/ \E word \in StoreWords, rawJson \in StoreBytes, writeOk \in BOOLEAN :
        StoreWrite(word, rawJson, writeOk)
  \/ \E word \in StoreWords, rawJson \in StoreBytes, writeOk \in BOOLEAN :
        StoreWrite0(word, rawJson, writeOk)
  \/ \E word \in StoreWords : StoreRead(word)

\* The program of src/wordef.go.
Spec == Init /\ [][Next]_vars

\* The program of src/unnamed/part_000.
Spec0 == Init /\ [][Next0]_vars

\* The cache store functions of both, called directly.
SpecStore == Init /\ [][NextStore]_vars

\* main with a query argument starts: the word is capitalized.
RaceStart(p, arg) ==
  /\ inst[p].pc = "idle"
  /\ inst' = [inst EXCEPT ![p] = [Idle EXCEPT !.pc = "cache",
                                               !.word = capitalizeString(arg)]]
  /\ UNCHANGED <<cacheDir, last, prev, resolved, firstOk, initDir, ncalls>>

\* searchWord, the call of fetchFromCache.
RaceFetchFromCache(p) ==
  /\ inst[p].pc = "cache"
  /\ LET c == fetchFromCache(inst[p].word, cacheDir) IN
     inst' = [inst EXCEPT ![p].rawJson = c.rawJson, ![p].err = c.err,
                          ![p].pc = IF c.err # "nil" THEN "api" ELSE "parse"]
  /\ UNCHANGED <<cacheDir, last, prev, resolved, firstOk, initDir, ncalls>>

\* searchWord, the call of fetchFromApi.
RaceFetchFromApi(p, net) ==
  /\ inst[p].pc = "api"
  /\ LET a == fetchFromApi(inst[p].word, net) IN
     inst' = [inst EXCEPT ![p].rawJson = a.rawJson, ![p].err = a.err,
                          ![p].pc = "parse"]
  /\ UNCHANGED <<cacheDir, last, prev, resolved, firstOk, initDir, ncalls>>

\* searchWord, json.Unmarshal and the return on its error.
RaceUnmarshal(p) ==
  /\ inst[p].pc = "parse"
  /\ LET u == Unmarshal(inst[p].rawJson) IN
     inst' = [inst EXCEPT ![p].err = u.err,
                          ![p].pc = IF u.err # "nil" THEN "done" ELSE "stat"]
  /\ UNCHANGED <<cacheDir, last, prev, resolved, firstOk, initDir, ncalls>>

\* saveToCache, os.Stat and the return when the file exists.
RaceStat(p) ==
  /\ inst[p].pc = "stat"
  /\ inst' = IF cacheDir[FileName(inst[p].word)].exists
             THEN [inst EXCEPT ![p].saved = "AlreadyExists", ![p].pc = "done"]
             ELSE [inst EXCEPT ![p].pc = "write"]
  /\ UNCHANGED <<cacheDir, last, prev, resolved, firstOk, initDir, ncalls>>

\* saveToCache, os.WriteFile: creates the file or truncates the one there.
RaceWrite(p, writeOk) ==
  /\ inst[p].pc = "write"
  /\ cacheDir' = IF writeOk
                 THEN [cacheDir EXCEPT ![FileName(inst[p].word)] =
                                          File(inst[p].rawJson, TRUE)]
                 ELSE cacheDir
  /\ inst' = [inst EXCEPT ![p].saved = IF writeOk THEN "nil" ELSE "IOFailure",
                          ![p].pc = "done"]
  /\ UNCHANGED <<last, prev, resolved, firstOk, initDir, ncalls>>

NextRace ==
  \/ \E p \in Instances, arg \in Args : RaceStart(p, arg)
  \/ \E p \in Instances : RaceFetchFromCache(p)
  \/ \E p \in Instances, net \in Nets : RaceFetchFromApi(p, net)
  \/ \E p \in Instances : RaceUnmarshal(p)
  \/ \E p \in Instances : RaceStat(p)
  \/ \E p \in Instances, writeOk \in BOOLEAN : RaceWrite(p, writeOk)

\* Two invocations of wordef.go interleaved at their file system and network
\* calls.
SpecRace == Init /\ [][NextRace]_vars

\* Runs of either build on one cache directory (both use <config dir>/wordef).
NextBoth == Next \/ Next0

SpecBoth == Init /\ [][NextBoth]_vars

-----------------------------------------------------------------------------
(* Properties *)

IsSearch(call) == call.op = "search"

\* This step is one run of a program (not a stuttering step).
IsRun == ncalls' = ncalls + 1

\* Two resolver calls in a row for one word, the first finding no record.
TwoSearches ==
  /\ IsSearch(prev) /\ IsSearch(last)
  /\ prev.word = last.word
  /\ Has(prev.events, "stat:err")

Persisted(call) == call.err = "nil" /\ Has(call.events, "write:ok")

\* C1 as claimed: for a word without a cache record, two resolver calls in a
\* row send at most one request to the remote endpoint together, whatever
\* the first call's outcome.
C1_AtMostOneFetch == TwoSearches => NFetch(prev) + NFetch(last) <= 1

\* C1 amended: when the first call returns without error and its cache write
\* succeeds, the first call sends one request and the second none (it reads
\* the record); when the first call fails, or its write fails, the second
\* call sends a request again.
C1_SecondFromCacheWhenPersisted ==
  TwoSearches =>
    IF Persisted(prev)
    THEN NFetch(prev) = 1 /\ NFetch(last) = 0 /\ Has(last.events, "read:ok")
    ELSE NFetch(last) = 1

C1_Witness == TwoSearches /\ Persisted(prev) /\ NFetch(last) = 0

\* Two direct writes in a row for one word.
TwoWrites ==
  /\ prev.op = "write" /\ last.op = "write"
  /\ prev.word = last.word

\* C2: after a write of b1 for W that stored it, a second write for W, of b2,
\* returns AlreadyExists and the record still holds b1 (saveToCache and
\* saveToAppDir alike).
C2_WriteOnce ==
  (TwoWrites /\ prev.err = "nil") =>
    /\ last.err = "AlreadyExists"
    /\ cacheDir[FileName(last.word)] = File(prev.rawJson, TRUE)

C2_Witness ==
  /\ TwoWrites /\ prev.err = "nil"
  /\ last.rawJson # prev.rawJson
  /\ last.err = "AlreadyExists"

FetchFailed(call) == Has(call.events, "get:err") \/ Has(call.events, "readall:err")

\* C3: when the word is not cached and the fetch fails, the resolver returns
\* the fetch's error (NetworkFailure or ReadFailure) and does not parse.
C3_FetchErrorReturned ==
  (IsSearch(last) /\ Has(last.events, "stat:err") /\ FetchFailed(last)) =>
    /\ last.err = (IF Has(last.events, "get:err") THEN "NetworkFailure" ELSE "ReadFailure")
    /\ ~Has(last.events, "unmarshal:ok")
    /\ ~Has(last.events, "unmarshal:err")

\* C4: when a record exists and reading it fails, the resolver returns
\* IOFailure and sends no request.
C4_ReadErrorReturned ==
  (IsSearch(last) /\ Has(last.events, "read:err")) =>
    last.err = "IOFailure" /\ NFetch(last) = 0

\* The call read a record whose bytes do not parse.
CorruptHit(call) ==
  /\ Len(call.events) >= 3
  /\ call.events[2] = "read:ok"
  /\ call.events[3] = "unmarshal:err"

\* C5: when a record exists and its bytes do not parse, the resolver returns
\* ParseFailure and sends no request.
C5_CorruptRecordNoFetch ==
  (IsSearch(last) /\ CorruptHit(last)) =>
    last.err = "ParseFailure" /\ NFetch(last) = 0

\* A JSON array whose elements are objects: the shape of the expected body.
ExpectedShape(txt) ==
  /\ txt \in ValidJson
  /\ SyntaxTree(txt).t = "array"
  /\ \A i \in 1..Len(SyntaxTree(txt).v) : SyntaxTree(txt).v[i].t = "object"

\* The cache or the endpoint delivered bytes in this call.
GotBytes(call) == Has(call.events, "read:ok") \/ Has(call.events, "readall:ok")

\* C6: when the bytes delivered by the cache file or by the endpoint are not
\* JSON of the expected shape, the lookup ends with a ParseFailure error: no
\* panic, no success.
C6_MalformedEndsInParseFailure ==
  (IsSearch(last) /\ GotBytes(last) /\ ~ExpectedShape(last.rawJson)) =>
    last.outcome = "error" /\ last.herr = "ParseFailure"

\* A JSON document that is no array.
NonArray(txt) == txt \in ValidJson /\ SyntaxTree(txt).t # "array"

\* C7: a resolver call that returns an error leaves the cache directory as it
\* was, and a fetched body that is a JSON document other than an array gives
\* ParseFailure and no record.
C7_ErrorLeavesCacheUnchanged ==
  [][(IsRun /\ IsSearch(last')) =>
       /\ last'.err # "nil" => cacheDir' = cacheDir
       /\ (Has(last'.events, "readall:ok") /\ NonArray(last'.body)) =>
            last'.err = "ParseFailure" /\ cacheDir' = cacheDir]_vars

Range(seq) == {seq[i] : i \in 1..Len(seq)}

\* C8: from an empty cache directory, the listing holds, without duplicates,
\* exactly the words for which a resolver call has returned without error.
C8_ListingIsResolved ==
  (last.op = "list" /\ last.err = "nil" /\ initDir = EmptyDir) =>
    /\ Range(last.words) = resolved
    /\ Cardinality(Range(last.words)) = Len(last.words)

\* C9: a resolver call of wordef.go reads the cache at most once and sends at
\* most one request, a request only after the cache lookup of the same call
\* has failed; when a readable record exists for the word no request is sent
\* and the call returns what parsing the stored bytes gives.
C9_OneReadOneFetch ==
  [][(IsRun /\ IsSearch(last')) =>
       LET ev == last'.events
           f == cacheDir[FileName(last'.word)]
       IN /\ NRead(last') <= 1
          /\ NFetch(last') <= 1
          /\ \A i \in 1..Len(ev) :
               ev[i] \in {"get:ok", "get:err"} =>
                 \E j \in 1..(i - 1) : ev[j] \in {"stat:err", "read:err"}
          /\ (f.exists /\ f.readable) =>
               /\ NFetch(last') = 0
               /\ last'.parsed = Unmarshal(f.data).parsed
               /\ last'.err = Unmarshal(f.data).err]_vars

C9_Witness ==
  /\ IsSearch(last) /\ Has(last.events, "read:ok")
  /\ NFetch(last) = 0 /\ last.err = "nil" /\ Len(last.parsed) > 0

\* C10 as claimed: a record the resolver created holds the bytes of the first
\* fetch for its word that parsed.
C10_RecordIsFirstParsedFetch ==
  \A w \in Keys :
    (cacheDir[FileName(w)].exists /\ ~initDir[FileName(w)].exists) =>
      firstOk[w] = <<cacheDir[FileName(w)].data>>

\* C10 amended: a record is created only by a resolver call for its word
\* that fetched and parsed, with exactly the bytes the endpoint delivered in
\* that call, and an existing record is never changed.
C10_RecordIsCreatingFetch ==
  [][\A w \in Keys :
       LET f == FileName(w) IN
       /\ cacheDir[f].exists => cacheDir'[f] = cacheDir[f]
       /\ (~cacheDir[f].exists /\ cacheDir'[f].exists) =>
            /\ IsSearch(last') /\ last'.word = w
            /\ Has(last'.events, "readall:ok")
            /\ last'.err = "nil"
            /\ cacheDir'[f].data = last'.body]_vars

C10_Witness ==
  /\ IsSearch(prev) /\ Has(prev.events, "write:ok")
  /\ IsSearch(last) /\ last.word = prev.word
  /\ cacheDir[FileName(last.word)].data = prev.body
  /\ prev.body # NilBytes

\* The query with its first rune in upper case.
Norm(s) == IF Len(s) = 0 THEN <<>> ELSE <<ToUpper(s[1])>> \o Tail(s)

\* The file names at which this step creates a record.
Created == {f \in DOMAIN cacheDir : ~cacheDir[f].exists /\ cacheDir'[f].exists}

HasRecord(dir, name) == name \in DOMAIN dir /\ dir[name].exists

\* C11 as claimed: a run of wordef.go for a query W without a record W.json
\* that resolves and persists sends exactly one request and creates exactly
\* one record, named W.json with W as typed.
C11_RecordNamedAsQuery ==
  [][(/\ IsRun /\ IsSearch(last') /\ last'.prog = "wordef"
      /\ ~HasRecord(cacheDir, FileName(last'.arg))
      /\ Persisted(last')) =>
       /\ NFetch(last') = 1
       /\ Created = {FileName(last'.arg)}]_vars

\* C11 amended: a run of wordef.go for a query W, with no record under W with
\* its first letter in upper case, sends exactly one request; when the body
\* parses and the write succeeds it creates exactly one record, named after W
\* with its first letter in upper case, and otherwise none.
C11_RecordNamedAsCapitalizedQuery ==
  [][(/\ IsRun /\ IsSearch(last') /\ last'.prog = "wordef"
      /\ ~HasRecord(cacheDir, FileName(Norm(last'.arg)))) =>
       /\ NFetch(last') = 1
       /\ Created = (IF Persisted(last') THEN {FileName(Norm(last'.arg))} ELSE {})
       /\ \A f \in DOMAIN cacheDir : cacheDir[f].exists => cacheDir'[f] = cacheDir[f]]_vars

C11_Witness ==
  /\ IsSearch(last) /\ last.prog = "wordef" /\ last.arg = Str_cat
  /\ Persisted(last) /\ NFetch(last) = 1
  /\ cacheDir[FileName(Str_Cat)].exists
  /\ ~cacheDir[FileName(Str_cat)].exists

\* The endpoint delivered a body in this call and the body parses.
FetchedAndParsed(call) ==
  /\ IsSearch(call)
  /\ Has(call.events, "readall:ok")
  /\ Unmarshal(call.body).err = "nil"

\* C12: after a fetch whose body parses, the resolver (of either build)
\* returns the parsed data and no error, whether the cache write succeeds, is
\* rejected because the record exists, or fails.
C12_ResultIndependentOfPersistence ==
  FetchedAndParsed(last) =>
    /\ last.err = "nil"
    /\ last.parsed = Unmarshal(last.body).parsed
    /\ \/ Has(last.events, "write:ok")
       \/ Has(last.events, "write:err")
       \/ Has(last.events, "save.stat:exists")

C12_Witness ==
  /\ FetchedAndParsed(prev) /\ Has(prev.events, "write:err") /\ prev.err = "nil"
  /\ FetchedAndParsed(last) /\ Has(last.events, "save.stat:exists") /\ last.err = "nil"
  /\ prev.prog # last.prog

\* Both invocations resolve the same word and no record of it was there when
\* they started.
SameUncachedWord ==
  /\ \A p \in Instances : inst[p].pc # "idle"
  /\ \A p, q \in Instances : inst[p].word = inst[q].word
  /\ \A p \in Instances : ~initDir[FileName(inst[p].word)].exists

\* C13: when two invocations resolve the same uncached word at the same time,
\* the record, once created, never changes: a write to the existing record is
\* rejected with AlreadyExists and the file keeps the payload of the first
\* writer.
C13_RecordCreatedOnceUnderRace ==
  [][SameUncachedWord =>
       \A f \in DOMAIN cacheDir :
         cacheDir[f].exists => cacheDir'[f] = cacheDir[f]]_vars

\* Two runs of wordef.go in a row whose queries differ and have one normalized
\* form, the first ending with a readable record of the word in the cache.
SameNormalizedForm ==
  /\ IsSearch(prev) /\ prev.prog = "wordef"
  /\ IsSearch(last) /\ last.prog = "wordef"
  /\ prev.arg # last.arg
  /\ Norm(prev.arg) = Norm(last.arg)
  /\ prev.err = "nil"
  /\ Has(prev.events, "write:ok") \/ Has(prev.events, "read:ok")

\* C14: a resolution looks up and persists under the same normalized word,
\* normalization is idempotent, and of two queries with equal normalized
\* forms the second is served from the record of the first without a fetch.
C14_NormalizedKeyShared ==
  /\ \A a \in Args : capitalizeString(capitalizeString(a)) = capitalizeString(a)
  /\ (IsSearch(last) /\ last.prog = "wordef") =>
       /\ last.word = Norm(last.arg)
       /\ Has(last.events, "write:ok") =>
            /\ HasRecord(cacheDir, FileName(Norm(last.arg)))
            /\ cacheDir[FileName(Norm(last.arg))].data = last.rawJson
  /\ SameNormalizedForm =>
       /\ last.word = prev.word
       /\ NFetch(last) = 0
       /\ Has(last.events, "read:ok")
       /\ last.rawJson = prev.rawJson

C14_Witness ==
  /\ SameNormalizedForm
  /\ prev.arg = Str_cat /\ last.arg = Str_Cat
  /\ Has(prev.events, "write:ok")
  /\ NFetch(last) = 0

\* The word keys of the records the program has written.
WrittenKeys ==
  {w \in Keys : cacheDir[FileName(w)].exists /\ ~initDir[FileName(w)].exists}

\* C15: the listing recovers, for every record W.json the program has
\* written, exactly the key W, also when W itself contains the text .json.
C15_ListingInvertsNaming ==
  (last.op = "list" /\ last.err = "nil") =>
    \A w \in WrittenKeys : w \in Range(last.words)

\* The words of the top-level entries of the cache directory named *.json.
TopLevelWords ==
  {RemoveFirst(f, Str_dot_json) :
     f \in {g \in DOMAIN cacheDir :
              cacheDir[g].exists /\ ~InSubDir(g) /\ Ext(g) = Str_dot_json}}

\* C16: the listing holds words of top-level entries of the cache directory
\* only; a file inside a subdirectory contributes no word.
C16_ListingTopLevelOnly ==
  (last.op = "list" /\ last.err = "nil") =>
    /\ Range(last.words) \subseteq TopLevelWords
    /\ Len(last.words) = Cardinality(TopLevelWords)

\* A run of wordef.go whose payload (read or fetched) parses to a sequence
\* with a first entry.
ParsedFirstEntry(call) ==
  /\ IsSearch(call) /\ call.prog = "wordef"
  /\ Unmarshal(call.rawJson).err = "nil"
  /\ Len(Unmarshal(call.rawJson).parsed) >= 1

EmptyMeanings(call) == Len(Unmarshal(call.rawJson).parsed[1].Meanings) = 0

\* C17: for a payload that parses and whose first entry has no meanings,
\* searchWord returns the entry without error and handleSearchCommand
\* reports a failure; with meanings it does not, so the caller can tell the
\* two apart.
C17_EmptyMeaningsReported ==
  ParsedFirstEntry(last) =>
    /\ last.err = "nil"
    /\ last.parsed = Unmarshal(last.rawJson).parsed
    /\ EmptyMeanings(last) <=> last.outcome = "error"

C17_Witness ==
  /\ ParsedFirstEntry(prev) /\ ~EmptyMeanings(prev) /\ prev.outcome = "ok"
  /\ ParsedFirstEntry(last) /\ EmptyMeanings(last) /\ last.outcome = "error"
  /\ last.err = "nil" /\ Len(last.parsed) = 1

\* C18: a resolver call that returns without error returns a sequence with at
\* least one element, so that resp[0] in the caller is defined, for every
\* payload that parses (the JSON values [] and null among them).
C18_NoErrorMeansFirstElement ==
  (IsSearch(last) /\ last.err = "nil") =>
    /\ Len(last.parsed) >= 1
    /\ last.outcome # "panic"

\* The file is a record the program has written (not one it found).
WrittenRecord(dir, f) == dir[f].exists /\ dir[f] # initDir[f]

\* C19: every record the program has written parses without error, and a
\* resolution of a word whose record the program has written succeeds from
\* that record: it sends no request and does not return ParseFailure.
C19_WrittenRecordsParse ==
  [][IsRun =>
       /\ \A f \in DOMAIN cacheDir' :
            WrittenRecord(cacheDir', f) => Unmarshal(cacheDir'[f].data).err = "nil"
       /\ (/\ IsSearch(last') /\ last'.prog = "wordef"
           /\ WrittenRecord(cacheDir, FileName(last'.word))) =>
            /\ last'.err = "nil"
            /\ NFetch(last') = 0
            /\ cacheDir' = cacheDir]_vars

C19_Witness ==
  /\ IsSearch(prev) /\ Persisted(prev)
  /\ IsSearch(last) /\ last.word = prev.word /\ last.prog = "wordef"
  /\ WrittenRecord(cacheDir, FileName(last.word))
  /\ Has(last.events, "read:ok") /\ last.err = "nil"

\* Two runs of wordef.go in a row for one word, the first resolving it from
\* the endpoint and the second from the cache.
FetchedThenCached ==
  /\ IsSearch(prev) /\ prev.prog = "wordef"
  /\ IsSearch(last) /\ last.prog = "wordef"
  /\ prev.word = last.word
  /\ NFetch(prev) = 1 /\ prev.err = "nil"
  /\ Has(last.events, "read:ok")

\* C20: the parsed result a resolution returns from the cache equals the
\* parsed result the earlier resolution of the word returned from its fetch.
C20_CacheTransparent ==
  FetchedThenCached =>
    /\ last.err = "nil"
    /\ NFetch(last) = 0
    /\ last.parsed = prev.parsed
    /\ last.rawJson = prev.body

C20_Witness ==
  /\ FetchedThenCached
  /\ Len(prev.parsed) = 1 /\ Len(prev.parsed[1].Meanings) >= 1
  /\ last.parsed = prev.parsed

=============================================================================
